---- MODULE Spec2Model ----
(***************************************************************************)
(* Model of pipecat_cli.config_validator: validate_and_build_config, the   *)
(* ConfigValidationError it raises, config_to_json, and the mapping of a   *)
(* loaded config dict back to validator arguments (_parse_config_dict).    *)
(*                                                                         *)
(* The second part models commands.init.init_command on its                *)
(* non-interactive path: the merge of command-line options with a loaded   *)
(* config file, the call of the validator, and what follows it.            *)
(*                                                                         *)
(* Python values: an Optional[str] is a string, with None the string       *)
(* "None"; an Optional[list[str]] is a sequence, with None the sequence    *)
(* <<"None">>; a bool is a BOOLEAN; an Optional[bool] is a set of at most  *)
(* one BOOLEAN, with None the empty set.  An error message is the string   *)
(* the code builds.                                                        *)
(***************************************************************************)
EXTENDS Naturals, Sequences, FiniteSets, TLC

VARIABLES
    pc,          \* where the caller is: "call", "returned", "raised", "serialized",
                 \* "reparsed"; for init_command "start", "merged", "exited"
    args,        \* the keyword arguments of the call of validate_and_build_config
    result,      \* the outcome of that call
    json,        \* the object config_to_json serialized
    reparsed,    \* the outcome of validating the parsed JSON again
    argv,        \* init_command: the options given on the command line
    config_path, \* init_command: the --config option
    config_file, \* init_command: the JSON object in the config file
    exit,        \* init_command: how the command ended
    generated,   \* init_command: the configs handed to ProjectGenerator
    printed      \* init_command: the JSON objects printed on stdout

command == <<argv, config_path, config_file, exit, generated, printed>>

vars == <<pc, args, result, json, reparsed, argv, config_path, config_file, exit, generated,
          printed>>

----------------------------------------------------------------------------
(* Python values *)

None == "None"
NoneList == <<None>>

\* `not x` for an Optional[str]
Falsy(x) == x = None \/ x = ""

\* `not xs` for an Optional[list[str]]
FalsyList(xs) == xs = NoneList \/ xs = <<>>

\* `a or b` for Optional[str]
Or(a, b) == IF Falsy(a) THEN b ELSE a

\* `a or b` for Optional[list[str]]
OrList(a, b) == IF FalsyList(a) THEN b ELSE a

\* None for an Optional[bool]
NoneBool == {}

\* a bool as an Optional[bool]
Bool(b) == {b}

Range(s) == {s[i] : i \in DOMAIN s}

\* sep.join(parts)
RECURSIVE Join(_, _)
Join(parts, sep) ==
    IF parts = <<>> THEN ""
    ELSE IF Len(parts) = 1 THEN parts[1]
    ELSE parts[1] \o sep \o Join(Tail(parts), sep)

\* The suffixes a token of the model can carry after a base transport name.
NameSuffixes == {"", "_dialin", "_dialout"}

\* t.startswith(prefix)
StartsWith(t, prefix) == \E s \in NameSuffixes : t = prefix \o s

\* StripHyphens with the replace forgotten.
StripHyphens_Kept(s) == s

\* s.replace('-', '') on a dial mode
StripHyphens(s) ==
    CASE s = "dial-in" -> "dialin"
      [] s = "dial-out" -> "dialout"
      [] OTHER -> s

----------------------------------------------------------------------------
(* The service registry: the catalog of identifiers per category. *)

ServiceDefinition(v) == [value |-> v]

WEBRTC_TRANSPORTS == <<ServiceDefinition("daily"), ServiceDefinition("smallwebrtc")>>

TELEPHONY_TRANSPORTS ==
    <<ServiceDefinition("twilio"), ServiceDefinition("telnyx"),
      ServiceDefinition("daily_pstn_dialin"), ServiceDefinition("daily_pstn_dialout"),
      ServiceDefinition("twilio_daily_sip_dialin"),
      ServiceDefinition("twilio_daily_sip_dialout")>>

STT_SERVICES == <<ServiceDefinition("deepgram_stt")>>

LLM_SERVICES == <<ServiceDefinition("openai_llm"), ServiceDefinition("anthropic_llm")>>

TTS_SERVICES == <<ServiceDefinition("cartesia_tts"), ServiceDefinition("elevenlabs_tts")>>

REALTIME_SERVICES == <<ServiceDefinition("openai_realtime")>>

VIDEO_SERVICES == <<ServiceDefinition("tavus_video")>>

\* [svc.value for svc in service_list]
get_valid_values(service_list) == [i \in DOMAIN service_list |-> service_list[i].value]

all_transports == WEBRTC_TRANSPORTS \o TELEPHONY_TRANSPORTS
valid_transport_values == get_valid_values(all_transports)
generic_transport_names == {"daily_pstn", "twilio_daily_sip"}
webrtc_values == get_valid_values(WEBRTC_TRANSPORTS)
telephony_values == get_valid_values(TELEPHONY_TRANSPORTS)

\* sorted(set(valid_transport_values) | generic_transport_names)
all_valid ==
    <<"daily", "daily_pstn", "daily_pstn_dialin", "daily_pstn_dialout", "smallwebrtc",
      "telnyx", "twilio", "twilio_daily_sip", "twilio_daily_sip_dialin",
      "twilio_daily_sip_dialout">>

----------------------------------------------------------------------------
(* The messages validate_and_build_config appends, as the strings it builds. *)

MsgNameRequired == "--name is required"
MsgBotTypeRequired == "--bot-type is required (web or telephony)"
MsgBotTypeInvalid(bot_type) ==
    "--bot-type must be 'web' or 'telephony', got '" \o bot_type \o "'"
MsgTransportRequired == "At least one --transport is required"
MsgModeRequired == "--mode is required (cascade or realtime)"
MsgModeInvalid(mode) == "--mode must be 'cascade' or 'realtime', got '" \o mode \o "'"
MsgPstnModeRequired ==
    "--daily-pstn-mode is required when transport is 'daily_pstn' " \o "(dial-in or dial-out)"
MsgPstnModeInvalid(m) ==
    "--daily-pstn-mode must be 'dial-in' or 'dial-out', " \o "got '" \o m \o "'"
MsgSipModeRequired ==
    "--twilio-daily-sip-mode is required when transport is 'twilio_daily_sip' "
        \o "(dial-in or dial-out)"
MsgSipModeInvalid(m) ==
    "--twilio-daily-sip-mode must be 'dial-in' or 'dial-out', " \o "got '" \o m \o "'"
MsgUnknownTransport(t) ==
    "Unknown transport '" \o t \o "'. Valid transports: " \o Join(all_valid, ", ")
MsgTelephonyForWeb(t) ==
    "Transport '" \o t \o "' is a telephony transport but bot-type is 'web'"
MsgSttRequired == "--stt is required for cascade mode"
MsgSttUnknown(stt) ==
    "Unknown STT service '" \o stt \o "'. "
        \o "Valid: " \o Join(get_valid_values(STT_SERVICES), ", ")
MsgLlmRequired == "--llm is required for cascade mode"
MsgLlmUnknown(llm) ==
    "Unknown LLM service '" \o llm \o "'. "
        \o "Valid: " \o Join(get_valid_values(LLM_SERVICES), ", ")
MsgTtsRequired == "--tts is required for cascade mode"
MsgTtsUnknown(tts) ==
    "Unknown TTS service '" \o tts \o "'. "
        \o "Valid: " \o Join(get_valid_values(TTS_SERVICES), ", ")
MsgRealtimeInCascade == "--realtime should not be specified in cascade mode"
MsgRealtimeRequired == "--realtime is required for realtime mode"
MsgRealtimeUnknown(realtime) ==
    "Unknown realtime service '" \o realtime \o "'. "
        \o "Valid: " \o Join(get_valid_values(REALTIME_SERVICES), ", ")
MsgSttInRealtime == "--stt should not be specified in realtime mode"
MsgLlmInRealtime == "--llm should not be specified in realtime mode"
MsgTtsInRealtime == "--tts should not be specified in realtime mode"
MsgVideoUnknown(video) ==
    "Unknown video service '" \o video \o "'. "
        \o "Valid: " \o Join(get_valid_values(VIDEO_SERVICES), ", ")
MsgVideoWebOnly == "Video services are only available for web bots"
MsgClientFrameworkInvalid(cf) ==
    "--client-framework must be 'react', 'vanilla', or 'none', " \o "got '" \o cf \o "'"
MsgClientFrameworkWebOnly == "--client-framework is only available for web bots"
MsgClientServerInvalid(cs) == "--client-server must be 'vite' or 'nextjs', got '" \o cs \o "'"
MsgClientServerNeedsFramework == "--client-server requires --client-framework"
MsgVideoInputWebOnly == "--video-input is only available for web bots"
MsgVideoOutputWebOnly == "--video-output is only available for web bots"
MsgKrispNeedsCloud == "--enable-krisp requires --deploy-to-cloud"
MsgPstnModeNoTransport == "--daily-pstn-mode specified but no 'daily_pstn' transport"
MsgSipModeNoTransport ==
    "--twilio-daily-sip-mode specified but no 'twilio_daily_sip' transport"

----------------------------------------------------------------------------
(* validate_and_build_config, block by block; each block yields the        *)
(* messages it appends to `errors`, in the order it appends them.          *)

\* if cond: errors.append(msg)
When(cond, msg) == IF cond THEN <<msg>> ELSE <<>>

\* --- Required fields ---
NameErrors(a) == When(Falsy(a.name), MsgNameRequired)

BotTypeErrors(a) ==
    IF Falsy(a.bot_type) THEN <<MsgBotTypeRequired>>
    ELSE IF a.bot_type \notin {"web", "telephony"} THEN <<MsgBotTypeInvalid(a.bot_type)>>
    ELSE <<>>

\* TransportRequiredErrors testing `transport == []` in place of `not transport`.
TransportRequiredErrors_EmptyOnly(a) == When(a.transport = <<>>, MsgTransportRequired)

TransportRequiredErrors(a) == When(FalsyList(a.transport), MsgTransportRequired)

ModeErrors(a) ==
    IF Falsy(a.mode) THEN <<MsgModeRequired>>
    ELSE IF a.mode \notin {"cascade", "realtime"} THEN <<MsgModeInvalid(a.mode)>>
    ELSE <<>>

\* RequiredErrors testing the name once more after the mode.
RequiredErrors_NameAgain(a) ==
    NameErrors(a) \o BotTypeErrors(a) \o TransportRequiredErrors(a) \o ModeErrors(a)
    \o NameErrors(a)

RequiredErrors(a) ==
    NameErrors(a) \o BotTypeErrors(a) \o TransportRequiredErrors(a) \o ModeErrors(a)

\* --- Transport validation ---
\* One iteration of `for t in transport`: what it appends to errors and to
\* resolved_transports.
TransportStep(t, a) ==
    IF t = "daily_pstn" THEN
        IF Falsy(a.daily_pstn_mode)
        THEN [errors |-> <<MsgPstnModeRequired>>, resolved |-> <<>>]
        ELSE IF a.daily_pstn_mode \notin {"dial-in", "dial-out"}
        THEN [errors |-> <<MsgPstnModeInvalid(a.daily_pstn_mode)>>, resolved |-> <<>>]
        ELSE [errors |-> <<>>,
              resolved |-> <<"daily_pstn_" \o StripHyphens(a.daily_pstn_mode)>>]
    ELSE IF t = "twilio_daily_sip" THEN
        IF Falsy(a.twilio_daily_sip_mode)
        THEN [errors |-> <<MsgSipModeRequired>>, resolved |-> <<>>]
        ELSE IF a.twilio_daily_sip_mode \notin {"dial-in", "dial-out"}
        THEN [errors |-> <<MsgSipModeInvalid(a.twilio_daily_sip_mode)>>, resolved |-> <<>>]
        ELSE [errors |-> <<>>,
              resolved |-> <<"twilio_daily_sip_" \o StripHyphens(a.twilio_daily_sip_mode)>>]
    ELSE IF t \in Range(valid_transport_values)
    THEN [errors |-> <<>>, resolved |-> <<t>>]
    ELSE [errors |-> <<MsgUnknownTransport(t)>>, resolved |-> <<>>]

\* TransportLoop collecting the resolved identifiers last entry first.
RECURSIVE TransportLoop_Reversed(_, _)
TransportLoop_Reversed(ts, a) ==
    IF ts = <<>> THEN [errors |-> <<>>, resolved |-> <<>>]
    ELSE LET head == TransportStep(Head(ts), a)
             rest == TransportLoop_Reversed(Tail(ts), a)
         IN  [errors |-> head.errors \o rest.errors,
              resolved |-> rest.resolved \o head.resolved]

RECURSIVE TransportLoop(_, _)
TransportLoop(ts, a) ==
    IF ts = <<>> THEN [errors |-> <<>>, resolved |-> <<>>]
    ELSE LET head == TransportStep(Head(ts), a)
             rest == TransportLoop(Tail(ts), a)
         IN  [errors |-> head.errors \o rest.errors,
              resolved |-> head.resolved \o rest.resolved]

\* ResolveTransports taking every token as it is passed.
ResolveTransports_Unchecked(a) ==
    [errors |-> <<>>, resolved |-> IF FalsyList(a.transport) THEN <<>> ELSE a.transport]

ResolveTransports(a) ==
    IF FalsyList(a.transport) THEN [errors |-> <<>>, resolved |-> <<>>]
    ELSE TransportLoop(a.transport, a)

\* CrossCheckLoop rejecting a web transport for a telephony bot as well.
RECURSIVE CrossCheckLoop_Symmetric(_, _)
CrossCheckLoop_Symmetric(resolved, bot_type) ==
    IF resolved = <<>> THEN <<>>
    ELSE When(\/ bot_type = "web" /\ Head(resolved) \in Range(telephony_values)
              \/ bot_type = "telephony" /\ Head(resolved) \in Range(webrtc_values),
              "Transport '" \o Head(resolved) \o "' does not match bot-type '"
                  \o bot_type \o "'")
         \o CrossCheckLoop_Symmetric(Tail(resolved), bot_type)

\* Cross-check transport vs bot_type
RECURSIVE CrossCheckLoop(_, _)
CrossCheckLoop(resolved, bot_type) ==
    IF resolved = <<>> THEN <<>>
    ELSE When(bot_type = "web" /\ Head(resolved) \in Range(telephony_values),
              MsgTelephonyForWeb(Head(resolved)))
         \o CrossCheckLoop(Tail(resolved), bot_type)

\* CrossCheckErrors walking the transport list as passed, not as resolved.
CrossCheckErrors_Unresolved(a, resolved_transports) ==
    IF ~Falsy(a.bot_type) /\ resolved_transports # <<>>
    THEN CrossCheckLoop(a.transport, a.bot_type)
    ELSE <<>>

CrossCheckErrors(a, resolved_transports) ==
    IF ~Falsy(a.bot_type) /\ resolved_transports # <<>>
    THEN CrossCheckLoop(resolved_transports, a.bot_type)
    ELSE <<>>

\* CascadeErrors without the `if not stt` branch.
CascadeErrors_SttOptional(a) ==
    When(~Falsy(a.stt) /\ a.stt \notin Range(get_valid_values(STT_SERVICES)),
         MsgSttUnknown(a.stt))
    \o (IF Falsy(a.llm) THEN <<MsgLlmRequired>>
        ELSE When(a.llm \notin Range(get_valid_values(LLM_SERVICES)), MsgLlmUnknown(a.llm)))
    \o (IF Falsy(a.tts) THEN <<MsgTtsRequired>>
        ELSE When(a.tts \notin Range(get_valid_values(TTS_SERVICES)), MsgTtsUnknown(a.tts)))
    \o When(~Falsy(a.realtime), MsgRealtimeInCascade)

\* CascadeErrors stopping at the first service it rejects.
CascadeErrors_FirstOnly(a) ==
    IF Falsy(a.stt) THEN <<MsgSttRequired>>
    ELSE IF a.stt \notin Range(get_valid_values(STT_SERVICES)) THEN <<MsgSttUnknown(a.stt)>>
    ELSE IF Falsy(a.llm) THEN <<MsgLlmRequired>>
    ELSE IF a.llm \notin Range(get_valid_values(LLM_SERVICES)) THEN <<MsgLlmUnknown(a.llm)>>
    ELSE IF Falsy(a.tts) THEN <<MsgTtsRequired>>
    ELSE IF a.tts \notin Range(get_valid_values(TTS_SERVICES)) THEN <<MsgTtsUnknown(a.tts)>>
    ELSE When(~Falsy(a.realtime), MsgRealtimeInCascade)

\* CascadeErrors rejecting a realtime value only when it is no catalog identifier.
CascadeErrors_RealtimeIfUnknown(a) ==
    (IF Falsy(a.stt) THEN <<MsgSttRequired>>
     ELSE When(a.stt \notin Range(get_valid_values(STT_SERVICES)), MsgSttUnknown(a.stt)))
    \o (IF Falsy(a.llm) THEN <<MsgLlmRequired>>
        ELSE When(a.llm \notin Range(get_valid_values(LLM_SERVICES)), MsgLlmUnknown(a.llm)))
    \o (IF Falsy(a.tts) THEN <<MsgTtsRequired>>
        ELSE When(a.tts \notin Range(get_valid_values(TTS_SERVICES)), MsgTtsUnknown(a.tts)))
    \o When(~Falsy(a.realtime)
                /\ a.realtime \notin Range(get_valid_values(REALTIME_SERVICES)),
            MsgRealtimeInCascade)

\* --- Mode-specific service validation ---
CascadeErrors(a) ==
    (IF Falsy(a.stt) THEN <<MsgSttRequired>>
     ELSE When(a.stt \notin Range(get_valid_values(STT_SERVICES)), MsgSttUnknown(a.stt)))
    \o (IF Falsy(a.llm) THEN <<MsgLlmRequired>>
        ELSE When(a.llm \notin Range(get_valid_values(LLM_SERVICES)), MsgLlmUnknown(a.llm)))
    \o (IF Falsy(a.tts) THEN <<MsgTtsRequired>>
        ELSE When(a.tts \notin Range(get_valid_values(TTS_SERVICES)), MsgTtsUnknown(a.tts)))
    \o When(~Falsy(a.realtime), MsgRealtimeInCascade)

RealtimeErrors(a) ==
    (IF Falsy(a.realtime) THEN <<MsgRealtimeRequired>>
     ELSE When(a.realtime \notin Range(get_valid_values(REALTIME_SERVICES)),
               MsgRealtimeUnknown(a.realtime)))
    \o When(~Falsy(a.stt), MsgSttInRealtime)
    \o When(~Falsy(a.llm), MsgLlmInRealtime)
    \o When(~Falsy(a.tts), MsgTtsInRealtime)

ServiceErrors(a) ==
    IF a.mode = "cascade" THEN CascadeErrors(a)
    ELSE IF a.mode = "realtime" THEN RealtimeErrors(a)
    ELSE <<>>

\* VideoErrors without the rejection for telephony bots.
VideoErrors_AnyBot(a) ==
    IF ~Falsy(a.video)
    THEN When(a.video \notin Range(get_valid_values(VIDEO_SERVICES)), MsgVideoUnknown(a.video))
    ELSE <<>>

\* --- Video service validation ---
VideoErrors(a) ==
    IF ~Falsy(a.video)
    THEN When(a.video \notin Range(get_valid_values(VIDEO_SERVICES)), MsgVideoUnknown(a.video))
         \o When(a.bot_type = "telephony", MsgVideoWebOnly)
    ELSE <<>>

\* --- Client validation ---
ClientErrors(a) ==
    (IF ~Falsy(a.client_framework)
     THEN When(a.client_framework \notin {"react", "vanilla", "none"},
               MsgClientFrameworkInvalid(a.client_framework))
          \o When(a.bot_type = "telephony", MsgClientFrameworkWebOnly)
          \o When(a.client_framework = "react" /\ ~Falsy(a.client_server)
                      /\ a.client_server \notin {"vite", "nextjs"},
                  MsgClientServerInvalid(a.client_server))
     ELSE <<>>)
    \o When(~Falsy(a.client_server) /\ Falsy(a.client_framework),
            MsgClientServerNeedsFramework)

\* generate_client true for react alone.
generate_client_ReactOnly(a) == ~Falsy(a.client_framework) /\ a.client_framework = "react"

generate_client(a) ==
    ~Falsy(a.client_framework) /\ a.client_framework \in {"react", "vanilla"}

\* resolved_client_framework without the clearing of 'none'.
resolved_client_framework_Kept(a) == a.client_framework

resolved_client_framework(a) ==
    IF ~Falsy(a.client_framework) /\ a.client_framework = "none" THEN None
    ELSE a.client_framework

\* resolved_client_server without the forcing of 'vite' for vanilla.
resolved_client_server_AsGiven(a) == a.client_server

resolved_client_server(a) ==
    IF ~Falsy(a.client_framework) /\ a.client_framework = "vanilla" THEN "vite"
    ELSE a.client_server

\* CrossFieldErrors without the krisp constraint.
CrossFieldErrors_NoKrisp(a) ==
    When(a.video_input /\ a.bot_type = "telephony", MsgVideoInputWebOnly)
    \o When(a.video_output /\ a.bot_type = "telephony", MsgVideoOutputWebOnly)

\* --- Cross-field constraints ---
CrossFieldErrors(a) ==
    When(a.video_input /\ a.bot_type = "telephony", MsgVideoInputWebOnly)
    \o When(a.video_output /\ a.bot_type = "telephony", MsgVideoOutputWebOnly)
    \o When(a.enable_krisp /\ ~a.deploy_to_cloud, MsgKrispNeedsCloud)

\* --- Daily PSTN mode without matching transport ---
DialModeErrors(a) ==
    When(/\ ~Falsy(a.daily_pstn_mode)
         /\ ~FalsyList(a.transport)
         /\ "daily_pstn" \notin Range(a.transport)
         /\ ~\E i \in DOMAIN a.transport : StartsWith(a.transport[i], "daily_pstn"),
         MsgPstnModeNoTransport)
    \o When(/\ ~Falsy(a.twilio_daily_sip_mode)
            /\ ~FalsyList(a.transport)
            /\ "twilio_daily_sip" \notin Range(a.transport)
            /\ ~\E i \in DOMAIN a.transport : StartsWith(a.transport[i], "twilio_daily_sip"),
            MsgSipModeNoTransport)

\* The list `errors` when the code reaches `if errors:`.
Errors(a) ==
    LET tr == ResolveTransports(a)
    IN  RequiredErrors(a)
        \o tr.errors
        \o CrossCheckErrors(a, tr.resolved)
        \o ServiceErrors(a)
        \o VideoErrors(a)
        \o ClientErrors(a)
        \o CrossFieldErrors(a)
        \o DialModeErrors(a)

\* --- Apply defaults ---
\* forced_video_output without the forcing.
forced_video_output_AsGiven(a) == a.video_output

\* Force video output on if a video service is selected
forced_video_output(a) == IF ~Falsy(a.video) THEN TRUE ELSE a.video_output

\* ScanDialMode keeping the first match.
RECURSIVE ScanDialMode_FirstWins(_, _, _)
ScanDialMode_FirstWins(resolved, base, acc) ==
    IF resolved = <<>> \/ acc # None THEN acc
    ELSE ScanDialMode_FirstWins(Tail(resolved), base,
                                IF Head(resolved) = base \o "_dialin" THEN "dial-in"
                                ELSE IF Head(resolved) = base \o "_dialout" THEN "dial-out"
                                ELSE acc)

\* The scan of resolved_transports for one base name: the dial mode of the last
\* resolved identifier with that base, None when there is none.
RECURSIVE ScanDialMode(_, _, _)
ScanDialMode(resolved, base, acc) ==
    IF resolved = <<>> THEN acc
    ELSE ScanDialMode(Tail(resolved), base,
                      IF Head(resolved) = base \o "_dialin" THEN "dial-in"
                      ELSE IF Head(resolved) = base \o "_dialout" THEN "dial-out"
                      ELSE acc)

resolved_daily_pstn_mode(resolved) == ScanDialMode(resolved, "daily_pstn", None)
resolved_twilio_daily_sip_mode(resolved) == ScanDialMode(resolved, "twilio_daily_sip", None)

\* return ProjectConfig(...)
ProjectConfig(a, resolved_transports) ==
    [project_name |-> a.name,
     bot_type |-> a.bot_type,
     transports |-> resolved_transports,
     mode |-> a.mode,
     stt_service |-> IF a.mode = "cascade" THEN a.stt ELSE None,
     llm_service |-> IF a.mode = "cascade" THEN a.llm ELSE None,
     tts_service |-> IF a.mode = "cascade" THEN a.tts ELSE None,
     realtime_service |-> IF a.mode = "realtime" THEN a.realtime ELSE None,
     video_service |-> a.video,
     generate_client |-> generate_client(a),
     client_framework |-> resolved_client_framework(a),
     client_server |-> resolved_client_server(a),
     daily_pstn_mode |-> resolved_daily_pstn_mode(resolved_transports),
     twilio_daily_sip_mode |-> resolved_twilio_daily_sip_mode(resolved_transports),
     video_input |-> a.video_input,
     video_output |-> forced_video_output(a),
     recording |-> a.recording,
     transcription |-> a.transcription,
     deploy_to_cloud |-> a.deploy_to_cloud,
     enable_krisp |-> a.enable_krisp,
     enable_observability |-> a.observability]

\* raise ConfigValidationError(errors)
ConfigValidationError(errors) == [kind |-> "ConfigValidationError", errors |-> errors]

\* a returned value
Returned(config) == [kind |-> "returned", config |-> config]

\* Validate raising only when more than one message was accumulated.
Validate_RaiseOnMany(a) ==
    LET errors == Errors(a)
    IN  IF Len(errors) > 1 THEN ConfigValidationError(errors)
        ELSE Returned(ProjectConfig(a, ResolveTransports(a).resolved))

\* The body of validate_and_build_config on fully bound parameters.
Validate(a) ==
    LET errors == Errors(a)
    IN  IF errors # <<>> THEN ConfigValidationError(errors)
        ELSE Returned(ProjectConfig(a, ResolveTransports(a).resolved))

\* The parameters of validate_and_build_config and their defaults.
Defaults ==
    [name |-> None, bot_type |-> None, transport |-> NoneList, mode |-> None,
     stt |-> None, llm |-> None, tts |-> None, realtime |-> None, video |-> None,
     client_framework |-> None, client_server |-> None,
     daily_pstn_mode |-> None, twilio_daily_sip_mode |-> None,
     recording |-> FALSE, transcription |-> FALSE,
     video_input |-> FALSE, video_output |-> FALSE,
     deploy_to_cloud |-> TRUE, enable_krisp |-> FALSE, observability |-> FALSE]

\* A call validate_and_build_config(**kwargs): a keyword that is no parameter
\* is a TypeError before the body runs; a parameter not passed takes its default.
validate_and_build_config(kwargs) ==
    IF DOMAIN kwargs \subseteq DOMAIN Defaults
    THEN Validate(kwargs @@ Defaults)
    ELSE [kind |-> "TypeError"]

----------------------------------------------------------------------------
(* Serialization and the way back. *)

\* config_to_json: the object json.dumps writes, which json.loads reads back.
config_to_json(config) ==
    [project_name |-> config.project_name,
     bot_type |-> config.bot_type,
     transports |-> config.transports,
     mode |-> config.mode,
     stt_service |-> config.stt_service,
     llm_service |-> config.llm_service,
     tts_service |-> config.tts_service,
     realtime_service |-> config.realtime_service,
     video_service |-> config.video_service,
     generate_client |-> config.generate_client,
     client_framework |-> config.client_framework,
     client_server |-> config.client_server,
     daily_pstn_mode |-> config.daily_pstn_mode,
     twilio_daily_sip_mode |-> config.twilio_daily_sip_mode,
     video_input |-> config.video_input,
     video_output |-> config.video_output,
     recording |-> config.recording,
     transcription |-> config.transcription,
     deploy_to_cloud |-> config.deploy_to_cloud,
     enable_krisp |-> config.enable_krisp,
     enable_observability |-> config.enable_observability]

\* file_data.get(key) for a string value
Get(file_data, key) == IF key \in DOMAIN file_data THEN file_data[key] ELSE None

\* file_data.get(key) for a list value
GetList(file_data, key) == IF key \in DOMAIN file_data THEN file_data[key] ELSE NoneList

\* file_data.get(key) for a bool value
GetBool(file_data, key) == IF key \in DOMAIN file_data THEN Bool(file_data[key]) ELSE NoneBool

\* file_data.get(key, default)
GetDefault(file_data, key, default) ==
    IF key \in DOMAIN file_data THEN file_data[key] ELSE default

\* The keyword arguments _parse_config_dict passes to validate_and_build_config.
ParseKwargs(file_data) ==
    [name |-> Or(Get(file_data, "name"), Get(file_data, "project_name")),
     bot_type |-> Get(file_data, "bot_type"),
     transport |-> OrList(GetList(file_data, "transports"), GetList(file_data, "transport")),
     mode |-> Get(file_data, "mode"),
     stt |-> Or(Get(file_data, "stt"), Get(file_data, "stt_service")),
     llm |-> Or(Get(file_data, "llm"), Get(file_data, "llm_service")),
     tts |-> Or(Get(file_data, "tts"), Get(file_data, "tts_service")),
     realtime |-> Or(Get(file_data, "realtime"), Get(file_data, "realtime_service")),
     video |-> Or(Get(file_data, "video"), Get(file_data, "video_service")),
     client_framework |-> Get(file_data, "client_framework"),
     client_server |-> Get(file_data, "client_server"),
     daily_pstn_mode |-> Get(file_data, "daily_pstn_mode"),
     twilio_daily_sip_mode |-> Get(file_data, "twilio_daily_sip_mode"),
     recording |-> GetDefault(file_data, "recording", FALSE),
     transcription |-> GetDefault(file_data, "transcription", FALSE),
     smart_turn |-> GetBool(file_data, "smart_turn"),
     video_input |-> GetDefault(file_data, "video_input", FALSE),
     video_output |-> GetDefault(file_data, "video_output", FALSE),
     deploy_to_cloud |-> GetDefault(file_data, "deploy_to_cloud", TRUE),
     enable_krisp |-> GetDefault(file_data, "enable_krisp", FALSE),
     observability |-> GetDefault(file_data, "observability",
                                  GetDefault(file_data, "enable_observability", FALSE))]

parse_config_dict(file_data) == validate_and_build_config(ParseKwargs(file_data))

----------------------------------------------------------------------------
(* The calls explored: the keyword arguments a caller can pass. *)

MaxTransports == 2

NameValues == {None, "", "my-bot"}
BotTypeValues == {None, "web", "telephony", "mobile"}
TransportTokens ==
    {"daily", "twilio", "daily_pstn", "twilio_daily_sip", "daily_pstn_dialin",
     "daily_pstn_dialout", "twilio_daily_sip_dialout", "nonexistent"}
TransportLists ==
    {NoneList} \cup UNION {[1..n -> TransportTokens] : n \in 0..MaxTransports}
DialModeValues == {None, "dial-in", "dial-out", "dial-up"}
ModeValues == {None, "cascade", "realtime", "hybrid"}
SttValues == {None, "", "deepgram_stt", "invalid_stt"}
LlmValues == {None, "", "openai_llm", "invalid_llm"}
TtsValues == {None, "", "cartesia_tts", "invalid_tts"}
RealtimeValues == {None, "", "openai_realtime", "invalid_realtime"}
VideoValues == {None, "tavus_video", "invalid_video"}
ClientFrameworkValues == {None, "react", "vanilla", "none", "svelte"}
ClientServerValues == {None, "vite", "nextjs", "webpack"}

\* Part of a call: the transport list and the two dial modes.
TransportPart == [transport : TransportLists, daily_pstn_mode : DialModeValues,
                  twilio_daily_sip_mode : DialModeValues]
TransportProfiles ==
    {[transport |-> NoneList, daily_pstn_mode |-> None, twilio_daily_sip_mode |-> None],
     [transport |-> <<"daily">>, daily_pstn_mode |-> None, twilio_daily_sip_mode |-> None],
     [transport |-> <<"twilio">>, daily_pstn_mode |-> None, twilio_daily_sip_mode |-> None],
     [transport |-> <<"twilio", "daily">>, daily_pstn_mode |-> None,
      twilio_daily_sip_mode |-> None],
     [transport |-> <<"daily_pstn">>, daily_pstn_mode |-> "dial-in",
      twilio_daily_sip_mode |-> None]}

\* Part of a call: the mode and the four mode services.
ServicePart == [mode : ModeValues, stt : SttValues, llm : LlmValues, tts : TtsValues,
                realtime : RealtimeValues]
CoreServiceProfiles ==
    {[mode |-> "cascade", stt |-> None, llm |-> None, tts |-> None, realtime |-> None],
     [mode |-> "cascade", stt |-> "deepgram_stt", llm |-> "openai_llm",
      tts |-> "cartesia_tts", realtime |-> None]}
ServiceProfiles ==
    CoreServiceProfiles
    \cup {[mode |-> None, stt |-> None, llm |-> None, tts |-> None, realtime |-> None],
          [mode |-> "realtime", stt |-> None, llm |-> None, tts |-> None,
           realtime |-> "openai_realtime"],
          [mode |-> "realtime", stt |-> "deepgram_stt", llm |-> None, tts |-> None,
           realtime |-> "invalid_realtime"]}

\* Part of a call: video, client and the flags the cross-field rules read.
FeaturePart == [video : VideoValues, client_framework : ClientFrameworkValues,
                client_server : ClientServerValues, video_input : BOOLEAN,
                video_output : BOOLEAN, deploy_to_cloud : BOOLEAN, enable_krisp : BOOLEAN]
CoreFeatureProfiles ==
    {[video |-> None, client_framework |-> None, client_server |-> None,
      video_input |-> FALSE, video_output |-> FALSE, deploy_to_cloud |-> TRUE,
      enable_krisp |-> FALSE],
     [video |-> "invalid_video", client_framework |-> None, client_server |-> "vite",
      video_input |-> FALSE, video_output |-> TRUE, deploy_to_cloud |-> FALSE,
      enable_krisp |-> TRUE]}
FeatureProfiles ==
    CoreFeatureProfiles
    \cup {[video |-> "tavus_video", client_framework |-> "react", client_server |-> "nextjs",
           video_input |-> TRUE, video_output |-> FALSE, deploy_to_cloud |-> TRUE,
           enable_krisp |-> TRUE]}

\* Part of a call: the flags that are only carried to the output.
FlagPart == [recording : BOOLEAN, transcription : BOOLEAN, observability : BOOLEAN]
FlagProfiles == {[recording |-> FALSE, transcription |-> FALSE, observability |-> FALSE]}

HeadPart == [name : NameValues, bot_type : BotTypeValues]

Kwargs(h, t, s, f, g) == h @@ t @@ s @@ f @@ g

\* Every call takes name and bot_type from their full ranges and one part from
\* its full range, the other parts from their profiles (the transport part, the
\* largest, meets the core profiles).
InputSpace(a) ==
    \/ \E h \in HeadPart, t \in TransportPart, s \in CoreServiceProfiles,
          f \in CoreFeatureProfiles, g \in FlagProfiles : a = Kwargs(h, t, s, f, g)
    \/ \E h \in HeadPart, t \in TransportProfiles, s \in ServicePart,
          f \in FeatureProfiles, g \in FlagProfiles : a = Kwargs(h, t, s, f, g)
    \/ \E h \in HeadPart, t \in TransportProfiles, s \in ServiceProfiles,
          f \in FeaturePart, g \in FlagProfiles : a = Kwargs(h, t, s, f, g)
    \/ \E h \in HeadPart, t \in TransportProfiles, s \in ServiceProfiles,
          f \in FeatureProfiles, g \in FlagPart : a = Kwargs(h, t, s, f, g)

----------------------------------------------------------------------------
(* The state machine: a call, and on success the round trip through JSON. *)

Pending == [kind |-> "pending"]

\* No command runs: the validator is called directly.
NoCommand ==
    /\ argv = Pending
    /\ config_path = None
    /\ config_file = Pending
    /\ exit = Pending
    /\ generated = <<>>
    /\ printed = <<>>

Init ==
    /\ pc = "call"
    /\ InputSpace(args)
    /\ result = Pending
    /\ json = Pending
    /\ reparsed = Pending
    /\ NoCommand

\* config = validate_and_build_config(**args)
Call ==
    /\ pc = "call"
    /\ result' = validate_and_build_config(args)
    /\ pc' = IF result'.kind = "returned" THEN "returned" ELSE "raised"
    /\ UNCHANGED <<args, json, reparsed>>
    /\ UNCHANGED command

\* data = json.loads(config_to_json(config))
Serialize ==
    /\ pc = "returned"
    /\ json' = config_to_json(result.config)
    /\ pc' = "serialized"
    /\ UNCHANGED <<args, result, reparsed>>
    /\ UNCHANGED command

\* _parse_config_dict(data)
Reparse ==
    /\ pc = "serialized"
    /\ reparsed' = parse_config_dict(json)
    /\ pc' = "reparsed"
    /\ UNCHANGED <<args, result, json>>
    /\ UNCHANGED command

Next == Call \/ Serialize \/ Reparse

Spec == Init /\ [][Next]_vars

----------------------------------------------------------------------------
(* init_command, non-interactive path. *)

\* The string and list options of init_command; absent from the command line
\* they are bound to None.
StringOptions ==
    {"name", "bot_type", "mode", "stt", "llm", "tts", "realtime", "video",
     "client_framework", "client_server", "daily_pstn_mode", "twilio_daily_sip_mode"}

\* The bool options of init_command and the defaults typer binds when the
\* option is absent from the command line.
OptionDefaults ==
    [recording |-> FALSE, transcription |-> FALSE, video_input |-> FALSE,
     video_output |-> FALSE, deploy_to_cloud |-> TRUE, enable_krisp |-> FALSE,
     observability |-> FALSE, dry_run |-> FALSE]

\* The parameters of init_command as typer binds them from the command line.
Bind(opts) ==
    [f \in DOMAIN opts |->
        IF f \in DOMAIN OptionDefaults
        THEN (IF opts[f] = NoneBool THEN OptionDefaults[f] ELSE TRUE \in opts[f])
        ELSE opts[f]]

\* load_config_from_file answering an empty object for a file it cannot read.
load_config_from_file_Lenient(path, content) == [kind |-> "returned", data |-> content]

\* load_config_from_file(path): the parsed object, or the error open() or
\* json.load raises.
load_config_from_file(path, content) ==
    IF path = "missing.json" THEN [kind |-> "FileNotFoundError"]
    ELSE IF path = "broken.json" THEN [kind |-> "JSONDecodeError"]
    ELSE [kind |-> "returned", data |-> content]

\* The parameters after `if config is not None:` has merged the file into them.
MergeFile(p, file_data) ==
    [name |-> Or(Or(p.name, Get(file_data, "name")), Get(file_data, "project_name")),
     bot_type |-> Or(p.bot_type, Get(file_data, "bot_type")),
     transport |-> OrList(OrList(p.transport, GetList(file_data, "transports")),
                          GetList(file_data, "transport")),
     mode |-> Or(p.mode, Get(file_data, "mode")),
     stt |-> Or(Or(p.stt, Get(file_data, "stt")), Get(file_data, "stt_service")),
     llm |-> Or(Or(p.llm, Get(file_data, "llm")), Get(file_data, "llm_service")),
     tts |-> Or(Or(p.tts, Get(file_data, "tts")), Get(file_data, "tts_service")),
     realtime |-> Or(Or(p.realtime, Get(file_data, "realtime")),
                     Get(file_data, "realtime_service")),
     video |-> Or(Or(p.video, Get(file_data, "video")), Get(file_data, "video_service")),
     client_framework |-> Or(p.client_framework, Get(file_data, "client_framework")),
     client_server |-> Or(p.client_server, Get(file_data, "client_server")),
     daily_pstn_mode |-> Or(p.daily_pstn_mode, Get(file_data, "daily_pstn_mode")),
     twilio_daily_sip_mode |->
         Or(p.twilio_daily_sip_mode, Get(file_data, "twilio_daily_sip_mode")),
     recording |-> p.recording \/ GetDefault(file_data, "recording", FALSE),
     transcription |-> p.transcription \/ GetDefault(file_data, "transcription", FALSE),
     smart_turn |-> IF p.smart_turn = NoneBool THEN GetBool(file_data, "smart_turn")
                    ELSE p.smart_turn,
     video_input |-> p.video_input \/ GetDefault(file_data, "video_input", FALSE),
     video_output |-> p.video_output \/ GetDefault(file_data, "video_output", FALSE),
     deploy_to_cloud |-> IF "deploy_to_cloud" \in DOMAIN file_data
                         THEN file_data["deploy_to_cloud"] ELSE p.deploy_to_cloud,
     enable_krisp |-> p.enable_krisp \/ GetDefault(file_data, "enable_krisp", FALSE),
     observability |->
         p.observability
             \/ GetDefault(file_data, "observability",
                           GetDefault(file_data, "enable_observability", FALSE)),
     dry_run |-> p.dry_run]

\* The keyword arguments of the call validate_and_build_config(name=name, ...).
CallArguments(p) == [k \in DOMAIN Defaults \cup {"smart_turn"} |-> p[k]]

\* raise typer.Exit(code)
Exit(code) == [kind |-> "Exit", code |-> code]

\* init_command returns: the process ends with status 0.
Returns == [kind |-> "return", code |-> 0]

\* Finish ending normally after an exception other than ConfigValidationError.
Finish_TypeErrorIgnored(outcome, dry_run) ==
    IF outcome.kind = "ConfigValidationError"
    THEN [exit |-> Exit(1), generated |-> <<>>, printed |-> <<>>]
    ELSE IF outcome.kind = "returned" /\ dry_run
    THEN [exit |-> Exit(0), generated |-> <<>>, printed |-> <<config_to_json(outcome.config)>>]
    ELSE IF outcome.kind = "returned"
    THEN [exit |-> Returns, generated |-> <<outcome.config>>, printed |-> <<>>]
    ELSE [exit |-> Returns, generated |-> <<>>, printed |-> <<>>]

\* What init_command does with the outcome of the call of the validator: a
\* ConfigValidationError and any other exception end in typer.Exit(1); a
\* returned config is printed under --dry-run, and otherwise handed to
\* ProjectGenerator, whose generate() and print_next_steps() then run.
Finish(outcome, dry_run) ==
    IF outcome.kind = "ConfigValidationError"
    THEN [exit |-> Exit(1), generated |-> <<>>, printed |-> <<>>]
    ELSE IF outcome.kind = "returned" /\ dry_run
    THEN [exit |-> Exit(0), generated |-> <<>>, printed |-> <<config_to_json(outcome.config)>>]
    ELSE IF outcome.kind = "returned"
    THEN [exit |-> Returns, generated |-> <<outcome.config>>, printed |-> <<>>]
    ELSE [exit |-> Exit(1), generated |-> <<>>, printed |-> <<>>]

\* The command lines explored.  The options come in groups that are on the
\* command line together: the core options with the values of a valid cascade
\* web bot, the extra options, the feature flags, --deploy-to-cloud,
\* --smart-turn and --dry-run.
CoreOptions == {"name", "bot_type", "transport", "mode", "stt", "llm", "tts"}
ExtraOptions ==
    {"realtime", "video", "client_framework", "client_server", "daily_pstn_mode",
     "twilio_daily_sip_mode"}
FeatureFlags ==
    {"recording", "transcription", "video_input", "video_output", "enable_krisp",
     "observability"}

OptionValues ==
    [name |-> "my-bot", bot_type |-> "web", transport |-> <<"daily">>, mode |-> "cascade",
     stt |-> "deepgram_stt", llm |-> "openai_llm", tts |-> "cartesia_tts",
     realtime |-> "openai_realtime", video |-> "tavus_video", client_framework |-> "react",
     client_server |-> "vite", daily_pstn_mode |-> "dial-in",
     twilio_daily_sip_mode |-> "dial-in"]

OptionalBools == {NoneBool, Bool(TRUE), Bool(FALSE)}

CommandLine(core, extra, features, deploy, smart, dry) ==
    [f \in DOMAIN OptionValues \cup DOMAIN OptionDefaults \cup {"smart_turn"} |->
        IF f \in CoreOptions THEN
            (IF core THEN OptionValues[f] ELSE IF f = "transport" THEN NoneList ELSE None)
        ELSE IF f \in ExtraOptions THEN (IF extra THEN OptionValues[f] ELSE None)
        ELSE IF f \in FeatureFlags THEN features
        ELSE IF f = "deploy_to_cloud" THEN deploy
        ELSE IF f = "smart_turn" THEN smart
        ELSE dry]

\* The config files explored: the same groups, with the values of a valid
\* cascade telephony bot, under the short or the `_service`-suffixed spelling of
\* the keys; a bool key is in the file when its group's value is not None.
FileValues ==
    [name |-> "file-bot", project_name |-> "file-bot", bot_type |-> "telephony",
     transport |-> <<"twilio">>, transports |-> <<"twilio">>, mode |-> "cascade",
     stt |-> "deepgram_stt", stt_service |-> "deepgram_stt",
     llm |-> "anthropic_llm", llm_service |-> "anthropic_llm",
     tts |-> "elevenlabs_tts", tts_service |-> "elevenlabs_tts",
     realtime |-> "openai_realtime", realtime_service |-> "openai_realtime",
     video |-> "tavus_video", video_service |-> "tavus_video",
     client_framework |-> "vanilla", client_server |-> "nextjs",
     daily_pstn_mode |-> "dial-out", twilio_daily_sip_mode |-> "dial-out"]

CoreKeys(long) ==
    IF long
    THEN {"project_name", "bot_type", "transports", "mode", "stt_service", "llm_service",
          "tts_service"}
    ELSE {"name", "bot_type", "transport", "mode", "stt", "llm", "tts"}

ExtraKeys(long) ==
    (IF long THEN {"realtime_service", "video_service"} ELSE {"realtime", "video"})
    \cup {"client_framework", "client_server", "daily_pstn_mode", "twilio_daily_sip_mode"}

FeatureKeys(long) ==
    {"recording", "transcription", "video_input", "video_output", "enable_krisp"}
    \cup (IF long THEN {"enable_observability"} ELSE {"observability"})

ConfigFile(core, extra, long, features, deploy, smart) ==
    LET keys == (IF core THEN CoreKeys(long) ELSE {})
                \cup (IF extra THEN ExtraKeys(long) ELSE {})
                \cup (IF features # NoneBool THEN FeatureKeys(long) ELSE {})
                \cup (IF deploy # NoneBool THEN {"deploy_to_cloud"} ELSE {})
                \cup (IF smart # NoneBool THEN {"smart_turn"} ELSE {})
    IN  [k \in keys |->
            IF k \in DOMAIN FileValues THEN FileValues[k]
            ELSE IF k = "deploy_to_cloud" THEN TRUE \in deploy
            ELSE IF k = "smart_turn" THEN TRUE \in smart
            ELSE TRUE \in features]

NoConfigFile == ConfigFile(FALSE, FALSE, FALSE, NoneBool, NoneBool, NoneBool)

ConfigPaths == {None, "project-config.json", "missing.json", "broken.json"}

\* The non-interactive runs: --name or --config is given.  Without a readable
\* config file there is no file content to draw.
CommandInit ==
    /\ pc = "start"
    /\ \E core \in BOOLEAN, extra \in BOOLEAN, features \in OptionalBools,
          deploy \in OptionalBools, smart \in OptionalBools,
          dry \in {NoneBool, Bool(TRUE)} :
          argv = CommandLine(core, extra, features, deploy, smart, dry)
    /\ config_path \in ConfigPaths
    /\ argv.name # None \/ config_path # None
    /\ IF config_path = "project-config.json"
       THEN \E core \in BOOLEAN, extra \in BOOLEAN, long \in BOOLEAN,
               features \in OptionalBools, deploy \in OptionalBools,
               smart \in OptionalBools :
               config_file = ConfigFile(core, extra, long, features, deploy, smart)
       ELSE config_file = NoConfigFile
    /\ args = Pending
    /\ result = Pending
    /\ json = Pending
    /\ reparsed = Pending
    /\ exit = Pending
    /\ generated = <<>>
    /\ printed = <<>>

\* Lines 105-145: with --config, load the file and merge it into the
\* parameters; an error of the load ends the command in `except Exception`.
LoadAndMerge ==
    /\ pc = "start"
    /\ LET p == Bind(argv)
           loaded == load_config_from_file(config_path, config_file)
       IN  IF config_path = None
           THEN /\ args' = CallArguments(p)
                /\ pc' = "merged"
                /\ UNCHANGED exit
           ELSE IF loaded.kind = "returned"
           THEN /\ args' = CallArguments(MergeFile(p, loaded.data))
                /\ pc' = "merged"
                /\ UNCHANGED exit
           ELSE /\ exit' = Exit(1)
                /\ pc' = "exited"
                /\ UNCHANGED args
    /\ UNCHANGED <<result, json, reparsed, argv, config_path, config_file, generated, printed>>

\* Lines 147-207: the call of the validator and what follows it.
ValidateAndGenerate ==
    /\ pc = "merged"
    /\ result' = validate_and_build_config(args)
    /\ LET f == Finish(result', Bind(argv).dry_run)
       IN  /\ exit' = f.exit
           /\ generated' = f.generated
           /\ printed' = f.printed
    /\ pc' = "exited"
    /\ UNCHANGED <<args, json, reparsed, argv, config_path, config_file>>

CommandNext == LoadAndMerge \/ ValidateAndGenerate

CommandSpec == CommandInit /\ [][CommandNext]_vars


----------------------------------------------------------------------------
(* The rules of the validator as the specification states them: for a call  *)
(* with arguments a, the messages each rule owes.                           *)

\* A value counts as supplied when it is neither None nor empty.
Supplied(x) == x # None /\ x # ""
SuppliedList(xs) == xs # NoneList /\ xs # <<>>

Owed(cond, msg) == IF cond THEN {msg} ELSE {}

Called == pc # "call"
Raised == Called /\ result.kind = "ConfigValidationError"
Succeeded == Called /\ result.kind = "returned"

TransportCatalog == Range(webrtc_values) \cup Range(telephony_values)
TelephonyCatalog == Range(telephony_values)
WebCatalog == Range(webrtc_values)

\* The identifier a transport token stands for, None when it does not resolve.
SpecResolve(t, a) ==
    IF t = "daily_pstn" THEN
        (IF a.daily_pstn_mode = "dial-in" THEN "daily_pstn_dialin"
         ELSE IF a.daily_pstn_mode = "dial-out" THEN "daily_pstn_dialout" ELSE None)
    ELSE IF t = "twilio_daily_sip" THEN
        (IF a.twilio_daily_sip_mode = "dial-in" THEN "twilio_daily_sip_dialin"
         ELSE IF a.twilio_daily_sip_mode = "dial-out" THEN "twilio_daily_sip_dialout"
         ELSE None)
    ELSE IF t \in TransportCatalog THEN t
    ELSE None

Entries(a) == IF SuppliedList(a.transport) THEN DOMAIN a.transport ELSE {}

\* Rule 1, presence.
OwedPresence(a) ==
    Owed(~Supplied(a.name), MsgNameRequired)
    \cup Owed(~Supplied(a.bot_type), MsgBotTypeRequired)
    \cup Owed(~SuppliedList(a.transport), MsgTransportRequired)
    \cup Owed(~Supplied(a.mode), MsgModeRequired)

\* Rule 2, enumeration.
OwedEnumeration(a) ==
    Owed(Supplied(a.bot_type) /\ a.bot_type \notin {"web", "telephony"},
         MsgBotTypeInvalid(a.bot_type))
    \cup Owed(Supplied(a.mode) /\ a.mode \notin {"cascade", "realtime"},
              MsgModeInvalid(a.mode))

\* Rule 3, transport resolution, entry by entry.
OwedResolutionAt(t, a) ==
    IF t = "daily_pstn" THEN
        Owed(~Supplied(a.daily_pstn_mode), MsgPstnModeRequired)
        \cup Owed(Supplied(a.daily_pstn_mode)
                      /\ a.daily_pstn_mode \notin {"dial-in", "dial-out"},
                  MsgPstnModeInvalid(a.daily_pstn_mode))
    ELSE IF t = "twilio_daily_sip" THEN
        Owed(~Supplied(a.twilio_daily_sip_mode), MsgSipModeRequired)
        \cup Owed(Supplied(a.twilio_daily_sip_mode)
                      /\ a.twilio_daily_sip_mode \notin {"dial-in", "dial-out"},
                  MsgSipModeInvalid(a.twilio_daily_sip_mode))
    ELSE Owed(t \notin TransportCatalog, MsgUnknownTransport(t))

OwedResolution(a) == UNION {OwedResolutionAt(a.transport[i], a) : i \in Entries(a)}

\* Rule 4, transport/bot-type cross-check.
OwedCrossCheck(a) ==
    IF a.bot_type = "web"
    THEN {MsgTelephonyForWeb(SpecResolve(a.transport[i], a)) :
             i \in {j \in Entries(a) : SpecResolve(a.transport[j], a) \in TelephonyCatalog}}
    ELSE {}

\* Rule 5, mode-specific services.
OwedServices(a) ==
    IF a.mode = "cascade" THEN
        Owed(~Supplied(a.stt), MsgSttRequired)
        \cup Owed(Supplied(a.stt) /\ a.stt \notin Range(get_valid_values(STT_SERVICES)),
                  MsgSttUnknown(a.stt))
        \cup Owed(~Supplied(a.llm), MsgLlmRequired)
        \cup Owed(Supplied(a.llm) /\ a.llm \notin Range(get_valid_values(LLM_SERVICES)),
                  MsgLlmUnknown(a.llm))
        \cup Owed(~Supplied(a.tts), MsgTtsRequired)
        \cup Owed(Supplied(a.tts) /\ a.tts \notin Range(get_valid_values(TTS_SERVICES)),
                  MsgTtsUnknown(a.tts))
        \cup Owed(Supplied(a.realtime), MsgRealtimeInCascade)
    ELSE IF a.mode = "realtime" THEN
        Owed(~Supplied(a.realtime), MsgRealtimeRequired)
        \cup Owed(Supplied(a.realtime)
                      /\ a.realtime \notin Range(get_valid_values(REALTIME_SERVICES)),
                  MsgRealtimeUnknown(a.realtime))
        \cup Owed(Supplied(a.stt), MsgSttInRealtime)
        \cup Owed(Supplied(a.llm), MsgLlmInRealtime)
        \cup Owed(Supplied(a.tts), MsgTtsInRealtime)
    ELSE {}

\* Rule 6, video.
OwedVideo(a) ==
    Owed(Supplied(a.video) /\ a.video \notin Range(get_valid_values(VIDEO_SERVICES)),
         MsgVideoUnknown(a.video))
    \cup Owed(Supplied(a.video) /\ a.bot_type = "telephony", MsgVideoWebOnly)

\* Rule 7, client selection.
OwedClient(a) ==
    Owed(Supplied(a.client_framework)
             /\ a.client_framework \notin {"react", "vanilla", "none"},
         MsgClientFrameworkInvalid(a.client_framework))
    \cup Owed(Supplied(a.client_framework) /\ a.bot_type = "telephony",
              MsgClientFrameworkWebOnly)
    \cup Owed(a.client_framework = "react" /\ Supplied(a.client_server)
                  /\ a.client_server \notin {"vite", "nextjs"},
              MsgClientServerInvalid(a.client_server))
    \cup Owed(Supplied(a.client_server) /\ ~Supplied(a.client_framework),
              MsgClientServerNeedsFramework)

\* Rule 8, feature cross-checks.
OwedFeatures(a) ==
    Owed(a.video_input /\ a.bot_type = "telephony", MsgVideoInputWebOnly)
    \cup Owed(a.video_output /\ a.bot_type = "telephony", MsgVideoOutputWebOnly)
    \cup Owed(a.enable_krisp /\ ~a.deploy_to_cloud, MsgKrispNeedsCloud)

\* Rule 9, dial mode without transport: the dial mode is supplied and no entry
\* of the transport list (an absent or empty list has none) is the generic token
\* or a resolved identifier of that base name.
Requests(a, base) ==
    \E i \in Entries(a) : a.transport[i] \in {base, base \o "_dialin", base \o "_dialout"}

OwedDialMode(a) ==
    Owed(Supplied(a.daily_pstn_mode) /\ ~Requests(a, "daily_pstn"), MsgPstnModeNoTransport)
    \cup Owed(Supplied(a.twilio_daily_sip_mode) /\ ~Requests(a, "twilio_daily_sip"),
              MsgSipModeNoTransport)

\* Rules 1 to 8.
OwedButDialMode(a) ==
    OwedPresence(a) \cup OwedEnumeration(a) \cup OwedResolution(a) \cup OwedCrossCheck(a)
    \cup OwedServices(a) \cup OwedVideo(a) \cup OwedClient(a) \cup OwedFeatures(a)

OwedMessages(a) == OwedButDialMode(a) \cup OwedDialMode(a)

----------------------------------------------------------------------------
(* Claims *)

\* C1: validate_and_build_config never short-circuits: after a call, the
\* raised error lists the message of every violated rule (presence,
\* enumeration, transport resolution, cross-check, mode services, video,
\* client, feature cross-checks, dial mode without transport).
C1_EveryViolatedRuleReported ==
    Called /\ OwedMessages(args) # {} =>
        /\ result.kind = "ConfigValidationError"
        /\ OwedMessages(args) \subseteq Range(result.errors)

\* C2: a successful call populates exactly one service group: cascade has
\* stt, llm and tts set and no realtime service, realtime the inverse.
C2_ExactlyOneServiceGroup ==
    Succeeded =>
        LET c == result.config
        IN  /\ c.mode \in {"cascade", "realtime"}
            /\ c.mode = "cascade" =>
                   /\ c.stt_service # None /\ c.llm_service # None /\ c.tts_service # None
                   /\ c.realtime_service = None
            /\ c.mode = "realtime" =>
                   /\ c.realtime_service # None
                   /\ c.stt_service = None /\ c.llm_service = None /\ c.tts_service = None

C2_Witness ==
    /\ Succeeded
    /\ result.config.mode = "realtime"
    /\ result.config.realtime_service = "openai_realtime"
    /\ args.stt = ""

\* C3: the call returns a ProjectConfig exactly when no rule is violated and
\* raises ConfigValidationError exactly when a message was accumulated; a raised
\* error carries a non-empty list and no record, a return carries no errors.
C3_ReturnsIffNoViolation ==
    Called =>
        /\ result.kind \in {"returned", "ConfigValidationError"}
        /\ result.kind = "returned" <=> OwedMessages(args) = {}
        /\ result.kind = "ConfigValidationError" <=> Errors(args) # <<>>
        /\ result.kind = "ConfigValidationError" =>
               /\ result.errors # <<>>
               /\ result.errors = Errors(args)
               /\ DOMAIN result = {"kind", "errors"}
        /\ result.kind = "returned" => DOMAIN result = {"kind", "config"}

C3_Witness == Raised /\ Len(result.errors) = 1 /\ args.enable_krisp

\* C4 as stated: on success a generic token resolves, in place, to the
\* identifier of the supplied dial mode, and the output dial-mode field equals
\* the supplied dial mode.
ResolvesInPlace(token, mode, base) ==
    /\ Len(result.config.transports) = Len(args.transport)
    /\ \A i \in DOMAIN args.transport :
          args.transport[i] = token =>
              /\ mode = "dial-in" => result.config.transports[i] = base \o "_dialin"
              /\ mode = "dial-out" => result.config.transports[i] = base \o "_dialout"

C4_OutputModeIsSuppliedMode ==
    Succeeded =>
        /\ "daily_pstn" \in Range(args.transport) =>
               /\ ResolvesInPlace("daily_pstn", args.daily_pstn_mode, "daily_pstn")
               /\ result.config.daily_pstn_mode = args.daily_pstn_mode
        /\ "twilio_daily_sip" \in Range(args.transport) =>
               /\ ResolvesInPlace("twilio_daily_sip", args.twilio_daily_sip_mode,
                                  "twilio_daily_sip")
               /\ result.config.twilio_daily_sip_mode = args.twilio_daily_sip_mode

Opposite(mode) == IF mode = "dial-in" THEN "dial-out" ELSE "dial-in"

\* The last entry of the transport list that names the base (the generic token
\* or a literal identifier of either direction) is the literal identifier of the
\* other direction.
OppositeLast(token, mode, base) ==
    \E j \in DOMAIN args.transport :
        /\ args.transport[j] = base \o "_" \o StripHyphens(Opposite(mode))
        /\ \A i \in DOMAIN args.transport :
              args.transport[i] \in {token, base \o "_dialin", base \o "_dialout"} => i <= j

\* C4, amended: on success a generic token resolves, in place, to the identifier
\* of the supplied dial mode; the output dial-mode field equals the supplied dial
\* mode unless the last entry of the list naming that base is the literal
\* identifier of the other direction, and then it is that other direction.
C4_OutputModeIsLastResolved ==
    Succeeded =>
        /\ "daily_pstn" \in Range(args.transport) =>
               /\ ResolvesInPlace("daily_pstn", args.daily_pstn_mode, "daily_pstn")
               /\ result.config.daily_pstn_mode =
                      IF OppositeLast("daily_pstn", args.daily_pstn_mode, "daily_pstn")
                      THEN Opposite(args.daily_pstn_mode) ELSE args.daily_pstn_mode
        /\ "twilio_daily_sip" \in Range(args.transport) =>
               /\ ResolvesInPlace("twilio_daily_sip", args.twilio_daily_sip_mode,
                                  "twilio_daily_sip")
               /\ result.config.twilio_daily_sip_mode =
                      IF OppositeLast("twilio_daily_sip", args.twilio_daily_sip_mode,
                                      "twilio_daily_sip")
                      THEN Opposite(args.twilio_daily_sip_mode)
                      ELSE args.twilio_daily_sip_mode

C4_Witness ==
    /\ Succeeded
    /\ args.transport = <<"twilio_daily_sip", "daily_pstn">>
    /\ args.daily_pstn_mode = "dial-out"
    /\ args.twilio_daily_sip_mode = "dial-in"
    /\ result.config.transports = <<"twilio_daily_sip_dialin", "daily_pstn_dialout">>
    /\ result.config.daily_pstn_mode = "dial-out"
    /\ result.config.twilio_daily_sip_mode = "dial-in"

Count(seq, m) == Cardinality({i \in DOMAIN seq : seq[i] = m})

\* C5: with bot_type = web, every entry that resolves to a telephony-catalog
\* identifier appends its 'telephony transport' message, so the call fails; no
\* successful output pairs bot_type = web with a telephony-catalog transport.
C5_WebRejectsTelephonyTransports ==
    Called /\ args.bot_type = "web" =>
        /\ \A i \in Entries(args) :
              LET r == SpecResolve(args.transport[i], args)
              IN  r \in TelephonyCatalog =>
                      /\ result.kind = "ConfigValidationError"
                      /\ Count(result.errors, MsgTelephonyForWeb(r)) =
                             Cardinality({j \in Entries(args) :
                                             SpecResolve(args.transport[j], args) = r})
        /\ result.kind = "returned" =>
               /\ result.config.bot_type = "web"
               /\ Range(result.config.transports) \cap TelephonyCatalog = {}

C5_Witness ==
    /\ Raised
    /\ args.bot_type = "web"
    /\ args.transport = <<"daily_pstn", "daily_pstn_dialin">>
    /\ Count(result.errors, MsgTelephonyForWeb("daily_pstn_dialin")) = 2

\* The transport list mixes telephony-catalog and web-catalog transports.
Mixed(a) ==
    /\ \E i \in Entries(a) : SpecResolve(a.transport[i], a) \in TelephonyCatalog
    /\ \E i \in Entries(a) : a.transport[i] \in WebCatalog

\* C6: with bot_type = telephony a web-catalog transport appends no message:
\* every message of a failure is owed to one of the rules, and an input that
\* violates no rule and mixes telephony and web transports succeeds with every
\* web transport kept in its place.
C6_TelephonyAllowsWebTransports ==
    Called /\ args.bot_type = "telephony" =>
        /\ result.kind = "ConfigValidationError" =>
               /\ Range(result.errors) \subseteq OwedMessages(args)
               /\ \A t \in WebCatalog :
                      /\ MsgTelephonyForWeb(t) \notin Range(result.errors)
                      /\ MsgUnknownTransport(t) \notin Range(result.errors)
        /\ Mixed(args) /\ OwedMessages(args) = {} =>
               /\ result.kind = "returned"
               /\ Len(result.config.transports) = Len(args.transport)
               /\ \A i \in DOMAIN args.transport :
                      args.transport[i] \in WebCatalog =>
                          result.config.transports[i] = args.transport[i]

C6_Witness ==
    /\ Succeeded
    /\ args.bot_type = "telephony"
    /\ args.transport = <<"twilio", "daily">>
    /\ result.config.transports = <<"twilio", "daily">>

\* C7: round trip: a returned ProjectConfig, serialized with config_to_json,
\* parsed back and passed through _parse_config_dict, validates again to an
\* equal ProjectConfig.
C7_RoundTrip ==
    pc = "reparsed" =>
        /\ reparsed.kind = "returned"
        /\ reparsed.config = result.config

RequiredMessages == {MsgNameRequired, MsgBotTypeRequired, MsgTransportRequired, MsgModeRequired}

\* C8: a call that supplies nothing fails with exactly four messages, one each
\* for name, bot-type, transport and mode.
C8_NothingSuppliedFourMessages ==
    Called /\ args = Defaults =>
        /\ result.kind = "ConfigValidationError"
        /\ Len(result.errors) = 4
        /\ Range(result.errors) = RequiredMessages

C8_Witness == Raised /\ args = Defaults /\ Len(result.errors) = 4

CascadeRequiredMessages == {MsgSttRequired, MsgLlmRequired, MsgTtsRequired}

\* C9: an input that is valid but for mode = cascade with none of stt, llm, tts
\* supplied fails with exactly three messages, one each for stt, llm and tts.
C9_CascadeWithoutServicesThreeMessages ==
    /\ Called
    /\ args.mode = "cascade"
    /\ ~Supplied(args.stt) /\ ~Supplied(args.llm) /\ ~Supplied(args.tts)
    /\ OwedMessages(args) = CascadeRequiredMessages
    => /\ result.kind = "ConfigValidationError"
       /\ Len(result.errors) = 3
       /\ Range(result.errors) = CascadeRequiredMessages

C9_Witness ==
    /\ Raised
    /\ args.name = "my-bot" /\ args.bot_type = "web" /\ args.transport = <<"daily">>
    /\ args.mode = "cascade"
    /\ args.stt = None /\ args.llm = None /\ args.tts = None /\ args.realtime = None
    /\ Len(result.errors) = 3

\* C10: mode-exclusive services: in cascade mode a supplied realtime value, and
\* in realtime mode each supplied stt, llm or tts value, appends its own message
\* whether or not it is a catalog identifier, so such a call never succeeds.
C10_OtherModeServiceRejected ==
    Called =>
        /\ args.mode = "cascade" /\ Supplied(args.realtime) =>
               /\ result.kind = "ConfigValidationError"
               /\ MsgRealtimeInCascade \in Range(result.errors)
        /\ args.mode = "realtime" /\ Supplied(args.stt) =>
               /\ result.kind = "ConfigValidationError"
               /\ MsgSttInRealtime \in Range(result.errors)
        /\ args.mode = "realtime" /\ Supplied(args.llm) =>
               /\ result.kind = "ConfigValidationError"
               /\ MsgLlmInRealtime \in Range(result.errors)
        /\ args.mode = "realtime" /\ Supplied(args.tts) =>
               /\ result.kind = "ConfigValidationError"
               /\ MsgTtsInRealtime \in Range(result.errors)

C10_Witness ==
    /\ Raised
    /\ args.mode = "cascade"
    /\ args.realtime = "openai_realtime"
    /\ result.errors = <<MsgRealtimeInCascade>>

ModeQualified ==
    {"daily_pstn_dialin", "daily_pstn_dialout", "twilio_daily_sip_dialin",
     "twilio_daily_sip_dialout"}

\* C11: every returned ProjectConfig has a non-empty project_name, bot_type web
\* or telephony, mode cascade or realtime, and a non-empty transports sequence of
\* catalog identifiers or mode-qualified derived identifiers, never a generic
\* token and never an unknown token.
C11_ReturnedConfigWellFormed ==
    Succeeded =>
        LET c == result.config
        IN  /\ c.project_name # None /\ c.project_name # ""
            /\ c.bot_type \in {"web", "telephony"}
            /\ c.mode \in {"cascade", "realtime"}
            /\ c.transports # NoneList /\ Len(c.transports) >= 1
            /\ \A i \in DOMAIN c.transports :
                  /\ c.transports[i] \in TransportCatalog \cup ModeQualified
                  /\ c.transports[i] \notin generic_transport_names
                  /\ c.transports[i] # "nonexistent"

C11_Witness ==
    /\ Succeeded
    /\ args.transport = <<"daily_pstn", "daily">>
    /\ result.config.transports = <<"daily_pstn_dialout", "daily">>
    /\ result.config.project_name = "my-bot"
    /\ result.config.bot_type = "telephony"

\* C12: merge precedence in init_command: for every field, string, list and
\* bool, deploy_to_cloud included, an option given on the command line is the
\* value passed to validate_and_build_config, whatever the config file holds.
C12_FlagWins ==
    pc = "merged" =>
        /\ \A f \in StringOptions : argv[f] # None => args[f] = argv[f]
        /\ argv.transport # NoneList => args.transport = argv.transport
        /\ \A f \in FeatureFlags \cup {"deploy_to_cloud"} :
              argv[f] # NoneBool => args[f] = (TRUE \in argv[f])
        /\ argv.smart_turn # NoneBool => args.smart_turn = argv.smart_turn

\* C13: in init_command, when the call of the validator fails nothing is handed
\* to ProjectGenerator and the command ends with a non-zero exit code; a config
\* is handed to ProjectGenerator only after the validator returned it.
C13_NoGenerationOnFailure ==
    /\ pc = "exited" /\ result.kind \in {"ConfigValidationError", "TypeError"} =>
           /\ generated = <<>>
           /\ exit.kind = "Exit"
           /\ exit.code # 0
    /\ generated # <<>> =>
           /\ result.kind = "returned"
           /\ generated = <<result.config>>

C13_Witness ==
    /\ pc = "exited"
    /\ argv.name = "my-bot"
    /\ result.kind = "TypeError"
    /\ exit = Exit(1)
    /\ generated = <<>>

\* C14: in init_command without --dry-run, a candidate input that violates no
\* rule ends with the validated ProjectConfig handed to ProjectGenerator exactly
\* once and without an error exit.
C14_ValidInputIsGenerated ==
    /\ pc = "exited"
    /\ result.kind # "pending"
    /\ ~Bind(argv).dry_run
    /\ OwedMessages(args) = {}
    => /\ exit.code = 0
       /\ result.kind = "returned"
       /\ generated = <<result.config>>

\* C15: smart_turn defaulting: a successful call that supplies no smart_turn
\* returns smart_turn = true for mode cascade and false for mode realtime, and
\* the same call with smart_turn supplied returns that value unchanged.
C15_SmartTurnDefaulting ==
    Succeeded =>
        /\ "smart_turn" \in DOMAIN result.config
        /\ result.config.smart_turn = (result.config.mode = "cascade")
        /\ \A b \in BOOLEAN :
              LET supplied == validate_and_build_config([smart_turn |-> Bool(b)] @@ args)
              IN  /\ supplied.kind = "returned"
                  /\ supplied.config.smart_turn = b

\* C16: config_to_json emits one key for every field of the ProjectConfig, each
\* holding the field's value, smart_turn and deploy_to_cloud among them.
C16_JsonHasEveryField ==
    pc \in {"serialized", "reparsed"} =>
        /\ \A k \in DOMAIN result.config : k \in DOMAIN json /\ json[k] = result.config[k]
        /\ "deploy_to_cloud" \in DOMAIN json
        /\ "smart_turn" \in DOMAIN json

\* C17: whenever a video service is supplied and the call succeeds, the output
\* has video_output = true, for either value of the input video_output flag.
C17_VideoForcesVideoOutput ==
    Succeeded /\ Supplied(args.video) => result.config.video_output = TRUE

C17_Witness ==
    /\ Succeeded
    /\ args.video = "tavus_video"
    /\ args.video_output = FALSE
    /\ result.config.video_output = TRUE

\* C18: whenever client_framework = vanilla and the call succeeds, the output
\* has client_server = vite and generate_client = true, whatever client_server
\* was supplied (absent, vite, nextjs or any other string).
C18_VanillaForcesVite ==
    Succeeded /\ args.client_framework = "vanilla" =>
        /\ result.config.client_server = "vite"
        /\ result.config.generate_client = TRUE

C18_Witness ==
    /\ Succeeded
    /\ args.client_framework = "vanilla"
    /\ args.client_server = "webpack"
    /\ result.config.client_server = "vite"

\* C19: whenever client_framework = none and the call succeeds, the output has
\* client_framework absent (None) and generate_client = false.
C19_NoneClearsClientFramework ==
    Succeeded /\ args.client_framework = "none" =>
        /\ result.config.client_framework = None
        /\ result.config.generate_client = FALSE

C19_Witness ==
    /\ Succeeded
    /\ args.client_framework = "none"
    /\ result.config.client_framework = None
    /\ result.config.generate_client = FALSE

\* C20: in every returned ProjectConfig, generate_client is true if and only if
\* the output client_framework is react or vanilla.
C20_GenerateClientIffFramework ==
    Succeeded =>
        (result.config.generate_client = TRUE
             <=> result.config.client_framework \in {"react", "vanilla"})

C20_Witness ==
    /\ Succeeded
    /\ result.config.client_framework = "react"
    /\ result.config.generate_client = TRUE
    /\ result.config.client_server = "nextjs"


\* C21: in every returned ProjectConfig client_server is set only if
\* client_framework is set in that output; an input that supplies client_server
\* and ends up without a client framework is rejected.
C21_ClientServerNeedsFramework ==
    /\ Succeeded =>
           (result.config.client_server # None => result.config.client_framework # None)
    /\ Called /\ Supplied(args.client_server)
           /\ (~Supplied(args.client_framework) \/ args.client_framework = "none")
       => result.kind = "ConfigValidationError"

\* C22: every returned ProjectConfig with enable_krisp = true has
\* deploy_to_cloud = true, and every call with enable_krisp = true and
\* deploy_to_cloud = false fails with the krisp message, whatever the other
\* fields are.
C22_KrispNeedsCloud ==
    /\ Succeeded /\ result.config.enable_krisp = TRUE =>
           result.config.deploy_to_cloud = TRUE
    /\ Called /\ args.enable_krisp /\ ~args.deploy_to_cloud =>
           /\ result.kind = "ConfigValidationError"
           /\ MsgKrispNeedsCloud \in Range(result.errors)

C22_Witness ==
    /\ Raised
    /\ args.enable_krisp /\ ~args.deploy_to_cloud
    /\ result.errors = <<MsgKrispNeedsCloud>>

C24_DialModeWithoutTransport ==
    Called =>
        /\ Supplied(args.daily_pstn_mode) /\ ~Requests(args, "daily_pstn") =>
               /\ result.kind = "ConfigValidationError"
               /\ MsgPstnModeNoTransport \in Range(result.errors)
        /\ Supplied(args.twilio_daily_sip_mode) /\ ~Requests(args, "twilio_daily_sip") =>
               /\ result.kind = "ConfigValidationError"
               /\ MsgSipModeNoTransport \in Range(result.errors)

\* C25: init_command with --dry-run and a valid input prints the resolved
\* configuration as JSON, exits with code 0 and hands nothing to
\* ProjectGenerator.
C25_DryRunPrintsAndExits ==
    /\ pc = "exited"
    /\ result.kind # "pending"
    /\ Bind(argv).dry_run
    /\ OwedMessages(args) = {}
    => /\ result.kind = "returned"
       /\ printed = <<config_to_json(result.config)>>
       /\ exit = Exit(0)
       /\ generated = <<>>

\* C26: a missing or unparsable config file raises its own error from
\* load_config_from_file, no ConfigValidationError; in init_command neither the
\* validator nor ProjectGenerator runs and the command exits with code 1.
C26_UnreadableConfigFileExits ==
    config_path \in {"missing.json", "broken.json"} =>
        /\ load_config_from_file(config_path, config_file).kind
               = (IF config_path = "missing.json" THEN "FileNotFoundError"
                  ELSE "JSONDecodeError")
        /\ pc # "merged"
        /\ args = Pending
        /\ result = Pending
        /\ generated = <<>>
        /\ printed = <<>>
        /\ pc = "exited" => exit = Exit(1)

C26_Witness ==
    /\ pc = "exited"
    /\ config_path = "broken.json"
    /\ argv.name = "my-bot"
    /\ result = Pending
    /\ exit = Exit(1)

\* C27 as stated: on success each output dial mode is dial-in (dial-out)
\* exactly when the dial-in (dial-out) identifier of its base is among the
\* resolved transports, and None when neither is.
C27_OutputModeIffAmongResolved ==
    Succeeded =>
        LET c == result.config
            r == Range(c.transports)
        IN  /\ c.daily_pstn_mode = "dial-in" <=> "daily_pstn_dialin" \in r
            /\ c.daily_pstn_mode = "dial-out" <=> "daily_pstn_dialout" \in r
            /\ c.daily_pstn_mode = None <=> r \cap {"daily_pstn_dialin", "daily_pstn_dialout"} = {}
            /\ c.twilio_daily_sip_mode = "dial-in" <=> "twilio_daily_sip_dialin" \in r
            /\ c.twilio_daily_sip_mode = "dial-out" <=> "twilio_daily_sip_dialout" \in r
            /\ c.twilio_daily_sip_mode = None
                   <=> r \cap {"twilio_daily_sip_dialin", "twilio_daily_sip_dialout"} = {}

\* The direction of the last identifier of the base in a resolved list, None
\* when the list has none.
LastDirection(resolved, base) ==
    LET at == {i \in DOMAIN resolved : resolved[i] \in {base \o "_dialin", base \o "_dialout"}}
    IN  IF at = {} THEN None
        ELSE LET last == CHOOSE i \in at : \A j \in at : j <= i
             IN  IF resolved[last] = base \o "_dialin" THEN "dial-in" ELSE "dial-out"

\* C27, amended: on success each output dial mode is a function of the resolved
\* transports alone: the direction of the last resolved identifier of its base,
\* None when there is none; so with one direction among the resolved transports
\* it is that direction, and the input dial mode is never copied.
C27_OutputModeIsLastDirection ==
    Succeeded =>
        LET c == result.config
            r == Range(c.transports)
        IN  /\ c.daily_pstn_mode = LastDirection(c.transports, "daily_pstn")
            /\ c.twilio_daily_sip_mode = LastDirection(c.transports, "twilio_daily_sip")
            /\ "daily_pstn_dialout" \notin r =>
                   (c.daily_pstn_mode = "dial-in" <=> "daily_pstn_dialin" \in r)
            /\ "daily_pstn_dialin" \notin r =>
                   (c.daily_pstn_mode = "dial-out" <=> "daily_pstn_dialout" \in r)
            /\ "twilio_daily_sip_dialin" \notin r =>
                   (c.twilio_daily_sip_mode = "dial-out" <=> "twilio_daily_sip_dialout" \in r)
            /\ r \cap {"daily_pstn_dialin", "daily_pstn_dialout"} = {} =>
                   c.daily_pstn_mode = None
            /\ r \cap {"twilio_daily_sip_dialin", "twilio_daily_sip_dialout"} = {} =>
                   c.twilio_daily_sip_mode = None

C27_Witness ==
    /\ Succeeded
    /\ args.transport = <<"daily_pstn_dialin">>
    /\ args.daily_pstn_mode = "dial-out"
    /\ result.config.daily_pstn_mode = "dial-in"
    /\ result.config.twilio_daily_sip_mode = None

NoTwoIdentical(errors) ==
    \A i \in DOMAIN errors : \A j \in DOMAIN errors : errors[i] = errors[j] => i = j

\* C28 as stated: the error list of a ConfigValidationError has no two identical
\* messages, for every input, repeated transport tokens included.
C28_NoTwoIdenticalMessages == Raised => NoTwoIdentical(result.errors)

\* No two entries of the transport list are the same token or stand for the
\* same identifier.
DistinctTransports(a) ==
    \A i \in Entries(a) : \A j \in Entries(a) :
        i # j =>
            /\ a.transport[i] # a.transport[j]
            /\ SpecResolve(a.transport[i], a) = None
                   \/ SpecResolve(a.transport[i], a) # SpecResolve(a.transport[j], a)

\* The messages appended once per entry of the transport list.
PerTransportMessages(a) ==
    OwedResolution(a) \cup {MsgTelephonyForWeb(t) : t \in TelephonyCatalog}

\* C28, amended: each rule appends one message per violation instance: the
\* error list has no two identical messages when no two entries of the transport
\* list are the same token or resolve to the same identifier, and a message that
\* does occur twice is one of the per-entry transport messages.
C28_OneMessagePerInstance ==
    Raised =>
        /\ DistinctTransports(args) => NoTwoIdentical(result.errors)
        /\ \A i \in DOMAIN result.errors : \A j \in DOMAIN result.errors :
              i # j /\ result.errors[i] = result.errors[j] =>
                  result.errors[i] \in PerTransportMessages(args)

C28_Witness ==
    /\ Raised
    /\ args.transport = <<"nonexistent", "nonexistent">>
    /\ Count(result.errors, MsgUnknownTransport("nonexistent")) = 2
    /\ Count(result.errors, MsgNameRequired) = 1

\* C29: on success the output transports have the length and order of the input
\* list: position i holds the input token when it is a catalog identifier and
\* its mode-qualified resolution when it is a generic token; nothing is dropped,
\* added, reordered or deduplicated, and the input list is as it was passed.
C29_TransportsKeepLengthAndOrder ==
    /\ [](Succeeded =>
             /\ Len(result.config.transports) = Len(args.transport)
             /\ \A i \in DOMAIN args.transport :
                    /\ args.transport[i] \in TransportCatalog =>
                           result.config.transports[i] = args.transport[i]
                    /\ args.transport[i] \in generic_transport_names =>
                           /\ result.config.transports[i]
                                  = SpecResolve(args.transport[i], args)
                           /\ result.config.transports[i] \in ModeQualified)
    /\ [][args' = args]_vars

C29_Witness ==
    /\ Succeeded
    /\ args.transport = <<"daily_pstn", "daily_pstn">>
    /\ args.daily_pstn_mode = "dial-in"
    /\ result.config.transports = <<"daily_pstn_dialin", "daily_pstn_dialin">>

\* C30: in every returned ProjectConfig client_server is None, vite or nextjs,
\* whichever client_framework (react, vanilla, none) came with it.
C30_ClientServerIsViteOrNextjs ==
    Succeeded => result.config.client_server \in {None, "vite", "nextjs"}

====
